---- MODULE Spec2Model ----
(***************************************************************************)
(* Model of the go-database package: the Config renderers (config.go),     *)
(* the PostgreSQL connection factory with its pool setters and logger      *)
(* switches, and the dbLogger adapter (postgresql.go).                     *)
(*                                                                         *)
(* Go strings are TLA+ strings; fmt.Sprintf is interpreted character by    *)
(* character over the format strings of the source.  An error value is     *)
(* <<>> (nil) or <<text>> (an error whose Error() is text).  A *dbLogger   *)
(* is an index into heap (0 is the nil pointer).  Durations are counted in *)
(* milliseconds.                                                           *)
(***************************************************************************)
EXTENDS Integers, Sequences, FiniteSets, TLC

VARIABLES
    cfg,        \* the caller's Config value (CreatePostgreSQL gets a pointer to it)
    shown,      \* String()/DSN() calls made so far: the receiver and the result
    pc,         \* the caller's position: "start", "open", "failed", "panic"
    db,         \* the PostgreSQL handle: Logger (gorm's active logger), dbLogger
    heap,       \* the dbLogger instances allocated so far, by address
    openCalls,  \* the DSNs handed to gorm.Open, in call order
    sqlCalls,   \* the setter calls made on the *sql.DB driver handle, in order
    env,        \* what the collaborators returned last: gorm.Open, db.DB.DB()
    ret,        \* the last API call: its arguments and what it returned
    traceCalls  \* Trace calls made so far: inputs and the Printf they made

vars == <<cfg, shown, pc, db, heap, openCalls, sqlCalls, env, ret, traceCalls>>

-----------------------------------------------------------------------------
(* Bounds of the model *)

MaxPool == 1          \* pool sizes range over -MaxPool..MaxPool and the README's
MaxShown == 2         \* renderer calls kept
MaxSqlCalls == 2      \* setter calls on the driver handle
MaxLoggers == 3       \* dbLogger instances allocated
MaxTraceCalls == 2    \* Trace calls
MaxLogLevel == 5      \* log levels range over 0..MaxLogLevel
MaxDelta == 1         \* elapsed times within MaxDelta ms of the slow threshold

-----------------------------------------------------------------------------
(* gorm.io/gorm/logger levels, as used by the source *)

Silent == 1
Error == 2
Warn == 3
Info == 4

SlowThresholdMs == 200

NilErr == <<>>
Err(text) == <<text>>
NilLogger == 0

-----------------------------------------------------------------------------
(* fmt.Sprintf with the verbs the source uses: %s takes the next argument  *)
(* as it is, %d renders the next argument as a decimal integer.            *)

RECURSIVE Sprintf(_, _)
Sprintf(format, args) ==
    IF format = "" THEN ""
    ELSE IF Len(format) >= 2 /\ SubSeq(format, 1, 1) = "%"
         THEN LET verb == SubSeq(format, 2, 2)
                  rest == SubSeq(format, 3, Len(format))
                  arg  == IF verb = "d" THEN ToString(Head(args)) ELSE Head(args)
              IN  arg \o Sprintf(rest, Tail(args))
         ELSE SubSeq(format, 1, 1) \o Sprintf(SubSeq(format, 2, Len(format)), args)

(* Config.String *)
String_Redacted(c) ==
    Sprintf("user=%s password=%s dbname=%s port=%d host=%s min-pool=%d max-pool=%d",
            <<c.User, "***", c.Name, c.Port, c.Host,
              c.MinConnectionPool, c.MaxConnectionPool>>)

String_PoolsSwapped(c) ==
    Sprintf("user=%s password=%s dbname=%s port=%d host=%s min-pool=%d max-pool=%d",
            <<c.User, c.Pass, c.Name, c.Port, c.Host,
              c.MaxConnectionPool, c.MinConnectionPool>>)

String(c) ==
    Sprintf("user=%s password=%s dbname=%s port=%d host=%s min-pool=%d max-pool=%d",
            <<c.User, c.Pass, c.Name, c.Port, c.Host,
              c.MinConnectionPool, c.MaxConnectionPool>>)

(* Config.DSN *)
DSN(c) ==
    Sprintf("user=%s password=%s dbname=%s port=%d host=%s sslmode=disable TimeZone=%s",
            <<c.User, c.Pass, c.Name, c.Port, c.Host, c.Timezone>>)

-----------------------------------------------------------------------------
(* Inputs *)

PoolSizes == (-MaxPool .. MaxPool) \cup {5, 20}
Timezones == {"", "Asia/Jakarta", "UTC"}

Configs ==
    [Host : {"localhost"}, Port : {5432, 0}, User : {"user", "username"},
     Pass : {"password", "s3cret"}, Name : {"mydatabase"},
     MaxConnectionPool : PoolSizes, MinConnectionPool : PoolSizes,
     Timezone : Timezones]

Passwords == {"password", "s3cret", ""}

(* The example of config.go's package comment and the README's configuration *)
DocExample ==
    [Host |-> "localhost", Port |-> 5432, User |-> "user", Pass |-> "password",
     Name |-> "mydatabase", MaxConnectionPool |-> 10, MinConnectionPool |-> 2,
     Timezone |-> "Asia/Jakarta"]

ReadmeConfig ==
    [Host |-> "localhost", Port |-> 5432, User |-> "username", Pass |-> "password",
     Name |-> "dbname", MaxConnectionPool |-> 20, MinConnectionPool |-> 5,
     Timezone |-> "Asia/Jakarta"]

(* The README's configuration with every pool size and timezone of the model *)
PoolConfigs ==
    {[ReadmeConfig EXCEPT !.MaxConnectionPool = mx, !.MinConnectionPool = mn,
                          !.Timezone = tz] :
        mx \in PoolSizes, mn \in PoolSizes, tz \in Timezones}

OpenErrs == {"connection refused", "password authentication failed"}
HandleErrs == {"invalid db"}
Writers == {"os.Stdout", "log.Default"}
LogLevels == 0 .. MaxLogLevel

DefaultLogger == [kind |-> "gorm.Default", ref |-> NilLogger]
NoHandle == [Logger |-> DefaultLogger, dbLogger |-> NilLogger]
NoEnv == [openErr |-> NilErr, handleErr |-> NilErr]
NoRet == [op |-> "none"]

-----------------------------------------------------------------------------
(* The configuration renderers, called on a Config the caller holds *)

InitConfig ==
    /\ cfg \in Configs \cup {DocExample}
    /\ shown = <<>>
    /\ pc = "start"
    /\ db = NoHandle
    /\ heap = <<>>
    /\ openCalls = <<>>
    /\ sqlCalls = <<>>
    /\ env = NoEnv
    /\ ret = NoRet
    /\ traceCalls = <<>>

CallString ==
    /\ Len(shown) < MaxShown
    /\ shown' = Append(shown, [fn |-> "String", cfg |-> cfg, out |-> String(cfg)])
    /\ UNCHANGED <<cfg, pc, db, heap, openCalls, sqlCalls, env, ret, traceCalls>>

CallDSN ==
    /\ Len(shown) < MaxShown
    /\ shown' = Append(shown, [fn |-> "DSN", cfg |-> cfg, out |-> DSN(cfg)])
    /\ UNCHANGED <<cfg, pc, db, heap, openCalls, sqlCalls, env, ret, traceCalls>>

(* The caller assigns the exported field Pass. *)
SetPass ==
    /\ \E p \in Passwords : p # cfg.Pass /\ cfg' = [cfg EXCEPT !.Pass = p]
    /\ UNCHANGED <<shown, pc, db, heap, openCalls, sqlCalls, env, ret, traceCalls>>

NextConfig == CallString \/ CallDSN \/ SetPass

SpecConfig == InitConfig /\ [][NextConfig]_vars

-----------------------------------------------------------------------------
(* The connection factory and the pool setters.  openErr is what gorm.Open *)
(* returns, e what db.DB.DB() returns on the call in question.             *)

(* PostgreSQL.SetMaxConnectionPool on the driver handle whose setter calls *)
(* so far are calls *)
SetMaxConnectionPool(calls, n, e) ==
    IF e # NilErr
    THEN [calls |-> calls, err |-> Err(Sprintf("failed to get sql db; %s", <<e[1]>>))]
    ELSE [calls |-> Append(calls, [fn |-> "SetMaxOpenConns", n |-> n]), err |-> NilErr]

(* PostgreSQL.SetMinConnectionPool *)
SetMinConnectionPool_WrongSetter(calls, n, e) ==
    IF e # NilErr
    THEN [calls |-> calls, err |-> Err(Sprintf("failed to get sql db; %s", <<e[1]>>))]
    ELSE [calls |-> Append(calls, [fn |-> "SetMaxOpenConns", n |-> n]), err |-> NilErr]

SetMinConnectionPool(calls, n, e) ==
    IF e # NilErr
    THEN [calls |-> calls, err |-> Err(Sprintf("failed to get sql db; %s", <<e[1]>>))]
    ELSE [calls |-> Append(calls, [fn |-> "SetMaxIdleConns", n |-> n]), err |-> NilErr]

(* CreatePostgreSQL, the timezone fallback: the Config it leaves in *cfg *)
DefaultTimezone_Always(c) == [c EXCEPT !.Timezone = "Asia/Jakarta"]

DefaultTimezone(c) ==
    IF c.Timezone = "" THEN [c EXCEPT !.Timezone = "Asia/Jakarta"] ELSE c

(* CreatePostgreSQL, the return taken when gorm.Open fails with openErr *)
OpenFailure_Unwrapped(out, openErr) == [out EXCEPT !.err = openErr]

OpenFailure(out, openErr) ==
    [out EXCEPT !.err = Err(Sprintf("failed to connect database; %s", <<openErr[1]>>))]

(* CreatePostgreSQL(&c): the Config it leaves behind, the gorm.Open calls  *)
(* and setter calls it makes, the db.DB.DB() results it saw, and what it   *)
(* returns (handle: whether the *PostgreSQL returned is non-nil).          *)
CreatePostgreSQL(c, openErr, e1, e2) ==
    LET c1  == DefaultTimezone(c)
        out == [cfg |-> c1, opens |-> <<DSN(c1)>>, calls |-> <<>>, seen |-> <<>>,
                handle |-> FALSE, err |-> NilErr]
    IN  IF openErr # NilErr
        THEN OpenFailure(out, openErr)
        ELSE LET r1 == IF c1.MaxConnectionPool <= 0
                       THEN SetMaxConnectionPool(<<>>, c1.MaxConnectionPool, e1)
                       ELSE [calls |-> <<>>, err |-> NilErr]
                 s1 == IF c1.MaxConnectionPool <= 0 THEN <<e1>> ELSE <<>>
             IN  IF r1.err # NilErr
                 THEN [out EXCEPT !.calls = r1.calls, !.seen = s1, !.err = r1.err]
                 ELSE LET r2 == SetMinConnectionPool(r1.calls, c1.MinConnectionPool, e2)
                      IN  [out EXCEPT !.calls = r2.calls, !.seen = Append(s1, e2),
                                      !.err = r2.err, !.handle = (r2.err = NilErr)]

ErrOrNil(S) == {NilErr} \cup {Err(t) : t \in S}

CallCreatePostgreSQL ==
    /\ pc = "start"
    /\ \E openErr \in ErrOrNil(OpenErrs), e1 \in ErrOrNil(HandleErrs),
          e2 \in ErrOrNil(HandleErrs) :
          LET r == CreatePostgreSQL(cfg, openErr, e1, e2)
          IN  /\ cfg' = r.cfg
              /\ openCalls' = openCalls \o r.opens
              /\ sqlCalls' = sqlCalls \o r.calls
              /\ env' = [openErr |-> openErr,
                         handleErr |-> IF r.seen = <<>> THEN env.handleErr
                                       ELSE r.seen[Len(r.seen)]]
              /\ pc' = IF r.handle THEN "open" ELSE "failed"
              /\ ret' = [op |-> "CreatePostgreSQL", arg |-> cfg, handle |-> r.handle,
                         err |-> r.err]
    /\ UNCHANGED <<shown, db, heap, traceCalls>>

CallSetMaxConnectionPool ==
    /\ pc = "open"
    /\ Len(sqlCalls) < MaxSqlCalls
    /\ \E n \in PoolSizes, e \in ErrOrNil(HandleErrs) :
          LET r == SetMaxConnectionPool(sqlCalls, n, e)
          IN  /\ sqlCalls' = r.calls
              /\ env' = [env EXCEPT !.handleErr = e]
              /\ ret' = [op |-> "SetMaxConnectionPool", n |-> n, err |-> r.err]
    /\ UNCHANGED <<cfg, shown, pc, db, heap, openCalls, traceCalls>>

CallSetMinConnectionPool ==
    /\ pc = "open"
    /\ Len(sqlCalls) < MaxSqlCalls
    /\ \E n \in PoolSizes, e \in ErrOrNil(HandleErrs) :
          LET r == SetMinConnectionPool(sqlCalls, n, e)
          IN  /\ sqlCalls' = r.calls
              /\ env' = [env EXCEPT !.handleErr = e]
              /\ ret' = [op |-> "SetMinConnectionPool", n |-> n, err |-> r.err]
    /\ UNCHANGED <<cfg, shown, pc, db, heap, openCalls, traceCalls>>

Init ==
    /\ cfg \in PoolConfigs
    /\ shown = <<>>
    /\ pc = "start"
    /\ db = NoHandle
    /\ heap = <<>>
    /\ openCalls = <<>>
    /\ sqlCalls = <<>>
    /\ env = NoEnv
    /\ ret = NoRet
    /\ traceCalls = <<>>

Next == CallCreatePostgreSQL \/ CallSetMaxConnectionPool \/ CallSetMinConnectionPool

Spec == Init /\ [][Next]_vars

-----------------------------------------------------------------------------
(* The logger adapter.  ESC (\033 in the Go source) is written out as the  *)
(* four characters \033.                                                   *)

(* logger.Config as SetLogger builds it *)
SetLoggerConfig_Info ==
    [SlowThreshold |-> SlowThresholdMs, Colorful |-> TRUE,
     IgnoreRecordNotFoundError |-> FALSE, ParameterizedQueries |-> FALSE,
     LogLevel |-> Info]

SetLoggerConfig ==
    [SlowThreshold |-> SlowThresholdMs, Colorful |-> TRUE,
     IgnoreRecordNotFoundError |-> FALSE, ParameterizedQueries |-> FALSE,
     LogLevel |-> Warn]

(* NewLogger: the dbLogger value it allocates *)
NewLogger(writer, config) ==
    IF config.Colorful
    THEN [Writer |-> writer, Config |-> config,
          infoStr      |-> "\\033[0m\\033[32m[info] %s\\033[0m",
          warnStr      |-> "\\033[0m\\033[35m[warn] %s\\033[0m",
          errStr       |-> "\\033[0m\\033[31m[error] %s\\033[0m",
          traceStr     |-> "\\033[33m[%.3fms] \\033[34;1m[rows:%v]\\033[0m %s",
          traceWarnStr |-> "\\033[33m%s \\033[0m\\033[31;1m[%.3fms] \\033[33m[rows:%v]\\033[35m %s\\033[0m",
          traceErrStr  |-> "\\033[35;1m%s \\033[0m\\033[33m[%.3fms] \\033[34;1m[rows:%v]\\033[0m %s"]
    ELSE [Writer |-> writer, Config |-> config,
          infoStr      |-> "[info] %s",
          warnStr      |-> "[warn] %s",
          errStr       |-> "[error] %s",
          traceStr     |-> "[%.3fms] [rows:%v] %s",
          traceWarnStr |-> "%s [%.3fms] [rows:%v] %s",
          traceErrStr  |-> "%s [%.3fms] [rows:%v] %s"]

(* dbLogger.LogMode on the instance at address l of heap h: the heap after *)
(* the call and the address returned                                       *)
LogMode_InPlace(h, l, level) ==
    [heap |-> [h EXCEPT ![l].Config.LogLevel = level], ret |-> l]

LogMode(h, l, level) ==
    [heap |-> Append(h, [h[l] EXCEPT !.Config.LogLevel = level]), ret |-> Len(h) + 1]

DbLoggerRef(l) == [kind |-> "dbLogger", ref |-> l]

(* PostgreSQL.SetLogger on handle d *)
SetLogger(h, d, writer) ==
    LET h1 == Append(h, NewLogger(writer, SetLoggerConfig))
    IN  [heap |-> h1, db |-> [Logger |-> DbLoggerRef(Len(h1)), dbLogger |-> Len(h1)]]

(* PostgreSQL.DebugMode on handle d: LogMode dereferences its receiver, so *)
(* a nil d.dbLogger panics before anything is assigned                     *)
DebugMode(h, d) ==
    IF d.dbLogger = NilLogger
    THEN [heap |-> h, db |-> d, panic |-> TRUE]
    ELSE LET r == LogMode(h, d.dbLogger, Info)
         IN  [heap |-> r.heap, db |-> [d EXCEPT !.Logger = DbLoggerRef(r.ret)],
              panic |-> FALSE]

CallSetLogger ==
    /\ pc = "open"
    /\ Len(heap) < MaxLoggers
    /\ \E writer \in Writers :
          LET r == SetLogger(heap, db, writer)
          IN  /\ heap' = r.heap
              /\ db' = r.db
              /\ ret' = [op |-> "SetLogger", writer |-> writer]
    /\ UNCHANGED <<cfg, shown, pc, openCalls, sqlCalls, env, traceCalls>>

CallDebugMode ==
    /\ pc = "open"
    /\ Len(heap) < MaxLoggers
    /\ LET r == DebugMode(heap, db)
       IN  /\ heap' = r.heap
           /\ db' = r.db
           /\ pc' = IF r.panic THEN "panic" ELSE pc
           /\ ret' = [op |-> "DebugMode", panic |-> r.panic]
    /\ UNCHANGED <<cfg, shown, openCalls, sqlCalls, env, traceCalls>>

(* The caller calls LogMode on any instance it can reach. *)
CallLogMode ==
    /\ pc = "open"
    /\ Len(heap) < MaxLoggers
    /\ \E l \in DOMAIN heap, level \in LogLevels :
          LET r == LogMode(heap, l, level)
          IN  /\ heap' = r.heap
              /\ ret' = [op |-> "LogMode", recv |-> l, level |-> level, out |-> r.ret]
    /\ UNCHANGED <<cfg, shown, pc, db, openCalls, sqlCalls, env, traceCalls>>

InitLogger ==
    /\ cfg \in {ReadmeConfig, [ReadmeConfig EXCEPT !.MaxConnectionPool = 0]}
    /\ shown = <<>>
    /\ pc = "start"
    /\ db = NoHandle
    /\ heap = <<>>
    /\ openCalls = <<>>
    /\ sqlCalls = <<>>
    /\ env = NoEnv
    /\ ret = NoRet
    /\ traceCalls = <<>>

NextLogger == CallCreatePostgreSQL \/ CallSetLogger \/ CallDebugMode \/ CallLogMode

SpecLogger == InitLogger /\ [][NextLogger]_vars

-----------------------------------------------------------------------------
(* Trace *)

(* time.Duration.String for whole milliseconds below one second *)
DurationString(ms) == ToString(ms) \o "ms"

(* dbLogger.Trace on the instance l (a dbLogger value): the Printf calls   *)
(* it makes, <<>> when it makes none.  fc is <<sql, rows>>.                *)
Trace_SlowFirst(l, elapsed, fc, err) ==
    IF l.Config.LogLevel <= Silent THEN <<>>
    ELSE IF elapsed > l.Config.SlowThreshold /\ l.Config.SlowThreshold # 0
            /\ l.Config.LogLevel >= Warn
    THEN <<[format |-> l.traceWarnStr,
            args |-> <<Sprintf("SLOW SQL >= %v", <<DurationString(l.Config.SlowThreshold)>>),
                       elapsed, fc[2], fc[1]>>]>>
    ELSE IF err # NilErr /\ l.Config.LogLevel >= Error
    THEN <<[format |-> l.traceErrStr, args |-> <<err[1], elapsed, fc[2], fc[1]>>]>>
    ELSE IF l.Config.LogLevel = Info
    THEN <<[format |-> l.traceStr, args |-> <<elapsed, fc[2], fc[1]>>]>>
    ELSE <<>>

Trace(l, elapsed, fc, err) ==
    IF l.Config.LogLevel <= Silent THEN <<>>
    ELSE IF err # NilErr /\ l.Config.LogLevel >= Error
    THEN <<[format |-> l.traceErrStr, args |-> <<err[1], elapsed, fc[2], fc[1]>>]>>
    ELSE IF elapsed > l.Config.SlowThreshold /\ l.Config.SlowThreshold # 0
            /\ l.Config.LogLevel >= Warn
    THEN <<[format |-> l.traceWarnStr,
            args |-> <<Sprintf("SLOW SQL >= %v", <<DurationString(l.Config.SlowThreshold)>>),
                       elapsed, fc[2], fc[1]>>]>>
    ELSE IF l.Config.LogLevel = Info
    THEN <<[format |-> l.traceStr, args |-> <<elapsed, fc[2], fc[1]>>]>>
    ELSE <<>>

LoggerConfigs ==
    [SlowThreshold : {0, SlowThresholdMs}, Colorful : BOOLEAN,
     IgnoreRecordNotFoundError : {FALSE}, ParameterizedQueries : {FALSE},
     LogLevel : LogLevels]

Elapsed == {0} \cup {SlowThresholdMs + d : d \in -MaxDelta .. MaxDelta}
TraceErrs == ErrOrNil({"record not found"})
Queries == {<<"SELECT 1", 1>>}

CallTrace ==
    /\ Len(traceCalls) < MaxTraceCalls
    /\ \E l \in DOMAIN heap, elapsed \in Elapsed, fc \in Queries, err \in TraceErrs :
          traceCalls' = Append(traceCalls,
              [l |-> l, elapsed |-> elapsed, fc |-> fc, err |-> err,
               printf |-> Trace(heap[l], elapsed, fc, err)])
    /\ UNCHANGED <<cfg, shown, pc, db, heap, openCalls, sqlCalls, env, ret>>

InitTrace ==
    /\ cfg = ReadmeConfig
    /\ shown = <<>>
    /\ pc = "start"
    /\ db = NoHandle
    /\ \E writer \in Writers, config \in LoggerConfigs :
          heap = <<NewLogger(writer, config)>>
    /\ openCalls = <<>>
    /\ sqlCalls = <<>>
    /\ env = NoEnv
    /\ ret = NoRet
    /\ traceCalls = <<>>

NextTrace == CallTrace

SpecTrace == InitTrace /\ [][NextTrace]_vars

-----------------------------------------------------------------------------
(* Properties *)

EndsWith(str, suffix) ==
    /\ Len(str) >= Len(suffix)
    /\ SubSeq(str, Len(str) - Len(suffix) + 1, Len(str)) = suffix

Created == ret.op = "CreatePostgreSQL"

(* C1: whenever CreatePostgreSQL opens the connection and returns a handle, *)
(* it has called SetMaxOpenConns with cfg.MaxConnectionPool and             *)
(* SetMaxIdleConns with cfg.MinConnectionPool, whatever the two values.     *)
C1_BothPoolSizesApplied ==
    (Created /\ ret.handle) =>
        sqlCalls = <<[fn |-> "SetMaxOpenConns", n |-> cfg.MaxConnectionPool],
                     [fn |-> "SetMaxIdleConns", n |-> cfg.MinConnectionPool]>>

(* C4: CreatePostgreSQL leaves *cfg as it was, except that an empty         *)
(* Timezone has become "Asia/Jakarta"; the DSN handed to gorm.Open ends in  *)
(* TimeZone=<that timezone>.                                                *)
C4_TimezoneDefault ==
    Created =>
        /\ cfg = [ret.arg EXCEPT !.Timezone =
                     IF ret.arg.Timezone = "" THEN "Asia/Jakarta" ELSE ret.arg.Timezone]
        /\ Len(openCalls) = 1
        /\ EndsWith(openCalls[1], "TimeZone=" \o cfg.Timezone)
        /\ ret.arg.Timezone = "" => EndsWith(openCalls[1], "TimeZone=Asia/Jakarta")

C4_Witness ==
    /\ Created
    /\ ret.arg.Timezone = ""
    /\ cfg.Timezone = "Asia/Jakarta"
    /\ openCalls = <<"user=username password=password dbname=dbname port=5432 host=localhost sslmode=disable TimeZone=Asia/Jakarta">>

(* C5: when gorm.Open fails, CreatePostgreSQL has made one open attempt and *)
(* no setter call, and returns a nil handle with the error                  *)
(* "failed to connect database; " followed by the underlying text.          *)
C5_OpenFailure ==
    (Created /\ env.openErr # NilErr) =>
        /\ Len(openCalls) = 1
        /\ sqlCalls = <<>>
        /\ ~ret.handle
        /\ pc = "failed"
        /\ ret.err = Err("failed to connect database; " \o env.openErr[1])

C5_Witness ==
    /\ Created
    /\ env.openErr = Err("connection refused")
    /\ ret.err = Err("failed to connect database; connection refused")
    /\ ~ret.handle

(* C6: a pool setter whose db.DB.DB() fails calls no setter and returns     *)
(* "failed to get sql db; " followed by the underlying text; one whose      *)
(* db.DB.DB() succeeds calls its own setter once with n and returns nil;    *)
(* CreatePostgreSQL returns a setter's error with a nil handle.             *)
C6_SetterStep(op, fn) ==
    ret'.op = op =>
        IF env'.handleErr # NilErr
        THEN /\ sqlCalls' = sqlCalls
             /\ ret'.err = Err("failed to get sql db; " \o env'.handleErr[1])
        ELSE /\ sqlCalls' = Append(sqlCalls, [fn |-> fn, n |-> ret'.n])
             /\ ret'.err = NilErr

C6_CreateStep ==
    (ret'.op = "CreatePostgreSQL" /\ env'.openErr = NilErr /\ env'.handleErr # NilErr) =>
        /\ ~ret'.handle
        /\ pc' = "failed"
        /\ ret'.err = Err("failed to get sql db; " \o env'.handleErr[1])
        /\ \A i \in DOMAIN sqlCalls' : sqlCalls'[i].fn = "SetMaxOpenConns"

(* C6, over every step: the two setters and CreatePostgreSQL behave as    *)
(* stated above on the error path and on the success path of db.DB.DB(). *)
C6_SettersNoOpOnError ==
    [][/\ C6_SetterStep("SetMaxConnectionPool", "SetMaxOpenConns")
       /\ C6_SetterStep("SetMinConnectionPool", "SetMaxIdleConns")
       /\ C6_CreateStep]_vars

C6_Witness ==
    /\ ret.op = "SetMinConnectionPool"
    /\ ret.err = Err("failed to get sql db; invalid db")
    /\ sqlCalls = <<[fn |-> "SetMaxIdleConns", n |-> 5]>>

(* C8: DSN() and String() return exactly the two documented layouts, with   *)
(* the password in plaintext and min-pool before max-pool; the example of   *)
(* the package comment renders to the two strings it documents.             *)
C8_ExactFormats ==
    \A i \in DOMAIN shown :
        LET c == shown[i].cfg
            head == "user=" \o c.User \o " password=" \o c.Pass \o " dbname=" \o c.Name
                    \o " port=" \o ToString(c.Port) \o " host=" \o c.Host
        IN  /\ shown[i].fn = "DSN" =>
                 shown[i].out = head \o " sslmode=disable TimeZone=" \o c.Timezone
            /\ shown[i].fn = "String" =>
                 shown[i].out = head \o " min-pool=" \o ToString(c.MinConnectionPool)
                                \o " max-pool=" \o ToString(c.MaxConnectionPool)
            /\ (c = DocExample /\ shown[i].fn = "DSN") =>
                 shown[i].out = "user=user password=password dbname=mydatabase port=5432 host=localhost sslmode=disable TimeZone=Asia/Jakarta"
            /\ (c = DocExample /\ shown[i].fn = "String") =>
                 shown[i].out = "user=user password=password dbname=mydatabase port=5432 host=localhost min-pool=2 max-pool=10"

C8_Witness ==
    /\ Len(shown) = 2
    /\ shown[1] = [fn |-> "DSN", cfg |-> DocExample,
                   out |-> "user=user password=password dbname=mydatabase port=5432 host=localhost sslmode=disable TimeZone=Asia/Jakarta"]
    /\ shown[2] = [fn |-> "String", cfg |-> DocExample,
                   out |-> "user=user password=password dbname=mydatabase port=5432 host=localhost min-pool=2 max-pool=10"]

DifferOnlyInPass(c1, c2) == c1.Pass # c2.Pass /\ [c1 EXCEPT !.Pass = c2.Pass] = c2

(* C9: two configurations that differ only in Pass render to the same       *)
(* display string (the display form is redacted).                           *)
C9_DisplayRedacted ==
    \A i, j \in DOMAIN shown :
        (shown[i].fn = "String" /\ shown[j].fn = "String"
            /\ DifferOnlyInPass(shown[i].cfg, shown[j].cfg))
        => shown[i].out = shown[j].out

(* C9 as amended: the display form carries the password, so two             *)
(* configurations that differ only in Pass render to different display      *)
(* strings.                                                                 *)
C9_DisplayShowsPassword ==
    \A i, j \in DOMAIN shown :
        (shown[i].fn = "String" /\ shown[j].fn = "String"
            /\ DifferOnlyInPass(shown[i].cfg, shown[j].cfg))
        => shown[i].out # shown[j].out

C9_Witness ==
    /\ Len(shown) = 2
    /\ shown[1].fn = "String" /\ shown[2].fn = "String"
    /\ DifferOnlyInPass(shown[1].cfg, shown[2].cfg)
    /\ shown[1].out = "user=user password=password dbname=mydatabase port=5432 host=localhost min-pool=2 max-pool=10"
    /\ shown[2].out = "user=user password=s3cret dbname=mydatabase port=5432 host=localhost min-pool=2 max-pool=10"

(* The level of the handle's active logger, when it is a dbLogger *)
ActiveLevel == heap[db.Logger.ref].Config.LogLevel

(* C3: DebugMode called on a freshly created handle, with no SetLogger call *)
(* before it, completes and leaves db.Logger a logger at the Info level.    *)
C3_DebugModeOnFreshHandle ==
    (ret.op = "DebugMode" /\ db.dbLogger = NilLogger) =>
        /\ ~ret.panic
        /\ pc = "open"
        /\ db.Logger.kind = "dbLogger"
        /\ ActiveLevel = Info

SameButLevel(l1, l2) ==
    /\ l1.Writer = l2.Writer
    /\ l1.Config.SlowThreshold = l2.Config.SlowThreshold
    /\ l1.Config.Colorful = l2.Config.Colorful
    /\ l1.infoStr = l2.infoStr /\ l1.warnStr = l2.warnStr /\ l1.errStr = l2.errStr
    /\ l1.traceStr = l2.traceStr /\ l1.traceWarnStr = l2.traceWarnStr
    /\ l1.traceErrStr = l2.traceErrStr

(* C7: no step changes an existing dbLogger instance; a LogMode(level) call *)
(* returns an instance that did not exist before, whose LogLevel is level   *)
(* and whose writer, slow threshold, colorization flag and six format       *)
(* strings are the receiver's.                                              *)
C7_LogModeCopies ==
    [][/\ \A l \in DOMAIN heap : l \in DOMAIN heap' /\ heap'[l] = heap[l]
       /\ ret'.op = "LogMode" =>
            /\ ret'.out \notin DOMAIN heap
            /\ ret'.out \in DOMAIN heap'
            /\ ret'.out # ret'.recv
            /\ heap'[ret'.out].Config.LogLevel = ret'.level
            /\ SameButLevel(heap'[ret'.out], heap[ret'.recv])
            /\ heap'[ret'.recv] = heap[ret'.recv]]_vars

C7_Witness ==
    /\ ret.op = "LogMode"
    /\ Len(heap) = 3
    /\ ret.recv = 2 /\ ret.out = 3 /\ ret.level = Silent
    /\ heap[1].Config.LogLevel = Warn
    /\ heap[2].Config.LogLevel = Error
    /\ heap[3].Config.LogLevel = Silent
    /\ heap[3].Writer = heap[1].Writer

(* C10: once SetLogger has been called, db.dbLogger stays at Warn; db.Logger *)
(* is db.dbLogger itself (Warn) right after SetLogger and a logger at Info   *)
(* right after DebugMode.                                                    *)
C10_LoggerLevels ==
    db.dbLogger # NilLogger =>
        /\ heap[db.dbLogger].Config.LogLevel = Warn
        /\ db.Logger.kind = "dbLogger"
        /\ ActiveLevel \in {Warn, Info}
        /\ ret.op = "SetLogger" => (db.Logger.ref = db.dbLogger /\ ActiveLevel = Warn)
        /\ ret.op = "DebugMode" => (~ret.panic /\ ActiveLevel = Info)

C10_Witness ==
    /\ ret.op = "SetLogger"
    /\ Len(heap) = 3
    /\ heap[2].Config.LogLevel = Info
    /\ db.dbLogger = 3
    /\ ActiveLevel = Warn

TraceSlow(t) ==
    /\ heap[t.l].Config.SlowThreshold # 0
    /\ t.elapsed > heap[t.l].Config.SlowThreshold

(* The format the three-way priority picks for the Trace call t *)
ThreeWayFormat(t) ==
    IF t.err # NilErr THEN heap[t.l].traceErrStr
    ELSE IF TraceSlow(t) THEN heap[t.l].traceWarnStr
    ELSE heap[t.l].traceStr

(* C2: every Trace call writes one record, in the error format when err is  *)
(* non-nil, else in the slow format when elapsed exceeds a nonzero          *)
(* SlowThreshold, else in the default format.                               *)
C2_ThreeWayAlways ==
    \A i \in DOMAIN traceCalls :
        /\ Len(traceCalls[i].printf) = 1
        /\ traceCalls[i].printf[1].format = ThreeWayFormat(traceCalls[i])

(* Whether the Trace call t writes a record at the logger's LogLevel *)
TraceWrites(t) ==
    LET level == heap[t.l].Config.LogLevel
    IN  /\ level > Silent
        /\ \/ t.err # NilErr
           \/ TraceSlow(t) /\ level >= Warn
           \/ level = Info

(* C2 as amended: a Trace call writes a record exactly when LogLevel is     *)
(* above Silent and err is non-nil, or the call is slow and LogLevel is at  *)
(* least Warn, or LogLevel is Info; the record it writes is in the format   *)
(* of the three-way priority, whatever calls came before.                   *)
C2_ThreeWayWhenWritten ==
    \A i \in DOMAIN traceCalls :
        LET t == traceCalls[i]
        IN  IF TraceWrites(t)
            THEN Len(t.printf) = 1 /\ t.printf[1].format = ThreeWayFormat(t)
            ELSE t.printf = <<>>

C2_Witness ==
    /\ Len(traceCalls) = 2
    /\ heap[1].Config.LogLevel = Warn
    /\ heap[1].Config.Colorful
    /\ traceCalls[1].err = NilErr /\ traceCalls[1].elapsed = 0
    /\ traceCalls[1].printf = <<>>
    /\ traceCalls[2].err # NilErr /\ TraceSlow(traceCalls[2])
    /\ traceCalls[2].printf[1].format = heap[1].traceErrStr

====
